---- MODULE Spec2Model ----
(***************************************************************************)
(* Model of the rate-limited, retrying, concurrent data-acquisition layer  *)
(* of "Section 1: API Integration and Data Pipeline/wix.py":               *)
(*   RateLimiter.wait_if_needed, RateLimiter.calculate_backoff_time,       *)
(*   PolygonStockAPI._make_request, get_previous_close,                    *)
(*   get_stock_data_for_ticker, get_stock_data, _process_ticker_data,      *)
(*   FrankfurterCurrencyAPI.get_historical_rates and get_currency_data.    *)
(*                                                                         *)
(* Time is counted in ticks of 1/TicksPerSecond seconds (0.05 s), so that  *)
(* the 0.1 s threshold of wait_if_needed is two ticks and a remaining wait *)
(* of one tick (0 < wait < 0.1 s) is representable.                        *)
(***************************************************************************)
EXTENDS Integers, Sequences, FiniteSets, TLC

\* ------------------------------------------------------------------ bounds
MaxCalls   == 4      \* wait_if_needed calls made on a limiter exercised alone
MaxTicks   == 3      \* clock advances seen while a limiter or one request runs
Max429     == 4      \* 429 answers the upstream gives to one request
BatchEvents == 1     \* 429 answers plus clock advances at arbitrary instants
                     \* seen during one get_stock_data
TicksPerSecond == 20 \* resolution at which time.time() is observed
MaxDays    == 3      \* days asked of get_currency_data
MaxBackoffRetry == 4 \* largest retry_count handed to calculate_backoff_time alone
FairCalls  == 2      \* further wait_if_needed calls made under fair scheduling
FairTicks  == 1      \* clock advances at arbitrary instants under fair scheduling

\* ------------------------------------------------------- program constants
WindowSeconds         == 60  \* wix.py:57  now - t < 60
MinWaitTenths         == 1   \* wix.py:74  wait_time < 0.1
DefaultMaxRetries     == 3   \* wix.py:130 max_retries=3
BackoffBase           == 5   \* wix.py:150 calculate_backoff_time(5, retry_count)
DefaultMaxWait        == 60  \* wix.py:35  max_wait=60
DefaultRequestsPerMin == 5   \* wix.py:87  requests_per_min=5
DefaultBurst          == 10  \* wix.py:87  burst=10
DefaultMaxWorkers     == 10  \* wix.py:217 max_workers=10
DefaultTickerCount    == 2   \* wix.py:104 default_tickers = ["WIX", "GOOGL"]

Window  == WindowSeconds * TicksPerSecond
MinWait == (MinWaitTenths * TicksPerSecond) \div 10

Min(a, b) == IF a < b THEN a ELSE b
Max(a, b) == IF a > b THEN a ELSE b

RECURSIVE Pow2(_)
Pow2(n) == IF n = 0 THEN 1 ELSE 2 * Pow2(n - 1)

\* ------------------------------------------------------------------- names
Main    == 0                      \* the thread that calls get_stock_data
Procs   == 0..DefaultTickerCount          \* Main and the pool threads
NoOwner == -1                     \* threading.Lock() not held
Status  == 0                      \* the request of get_market_status
Keys    == 0..DefaultTickerCount          \* Status and the tickers

\* What one requests.get can end in (wix.py:147-159).
\*   "ok"        2xx, JSON with a non-empty "results" list
\*   "empty"     2xx, JSON without results
\*   "malformed" 2xx, JSON whose results[0] is no mapping (data.get raises)
\*   "badjson"   2xx, body that response.json() cannot parse
\*   "s429"      HTTP 429
\*   "http"      any other non-2xx status
\*   "neterr"    connection error or timeout raised by requests.get
Responses == {"ok", "empty", "malformed", "badjson", "s429", "http", "neterr"}
JsonBodies == {"ok", "empty", "malformed"}

\* Draws of random.random() * 2 - 1, in tenths.
JitterDraws == {-10, 10}

\* What get_historical_rates hands back: the parsed body, or {} on any error.
\*   shape "rates"    a mapping with a "rates" mapping
\*   shape "norates"  a mapping without the key "rates"
\*   shape "nondict"  JSON that is no mapping of that form
\*   shape "exception" an exception that get_historical_rates did not catch
EmptyDict == [shape |-> "norates", rates |-> <<>>]

\* No value yet (every duration is >= 0).
NoValue == 0 - 1
\* A date argument: a datetime.datetime or a string, of the day `day`.
NoDate == [type |-> "str", day |-> 0]

VARIABLES
    clock,                \* time.time(), in ticks
    ticks,                \* clock advances at arbitrary instants still to be seen
    burst,                \* RateLimiter.burst
    requests_per_minute,  \* RateLimiter.requests_per_minute
    request_times,        \* RateLimiter.request_times
    lock,                 \* owner of RateLimiter.lock, or NoOwner
    pc,                   \* where each thread is
    now,                  \* wait_if_needed's local now, per thread
    pruned,               \* the list the thread's comprehension built (wix.py:57)
    wake,                 \* earliest clock at which the thread's time.sleep ends
    branch,               \* how the thread's last wait_if_needed ended
    waited,               \* value returned by the thread's last wait_if_needed
    retry_count,          \* _make_request's retry_count, per thread
    ctx,                  \* the request the thread is making: Status or a ticker
    ret,                  \* value _make_request returned to the thread
    hist,                 \* per request in progress: the responses received, in order
    outcome,              \* per ticker: what its _make_request returned
    throttled,            \* 429 answers the upstream may still give
    calls,                \* wait_if_needed calls a bare caller may still make
    admits,               \* per request: completed wait_if_needed calls
    sleeps,               \* per request: backoff sleeps, as retry_count used
    tickers,              \* get_stock_data's tickers
    use_threading,        \* get_stock_data's use_threading
    max_workers,          \* get_stock_data's max_workers
    queue,                \* the executor's work queue
    future,               \* per ticker: state of its future
    all_data,             \* get_stock_data's all_data
    seq_i,                \* position of the sequential for loop
    cur_days,             \* get_currency_data's days
    cur_i,                \* get_currency_data's loop variable i
    cur_pc,               \* where get_currency_data is
    cur_rates,            \* what get_historical_rates returned for the date
    cur_data,             \* get_currency_data's all_data
    cur_hist,             \* how each date's lookup was answered, in order
    bk_base,              \* calculate_backoff_time's base_wait_time, in ticks
    bk_max,               \* calculate_backoff_time's max_wait, in ticks
    bk_rc,                \* the retry_count of the next calculate_backoff_time call
    bk_prev,              \* what the call before the last returned
    bk_out,               \* what the last call returned
    norm_in,              \* the arguments of _process_ticker_data
    norm_out,             \* what _process_ticker_data returned
    norm_done             \* _process_ticker_data has returned

limiterVars == <<burst, requests_per_minute, request_times, lock>>
frameVars   == <<now, pruned, wake, branch, waited>>
callVars    == <<retry_count, ctx, ret>>
requestVars == <<hist, outcome, throttled, calls, admits, sleeps>>
batchVars   == <<tickers, use_threading, max_workers, queue, future, all_data, seq_i>>
currencyVars == <<cur_days, cur_i, cur_pc, cur_rates, cur_data, cur_hist>>
stockVars == <<clock, ticks, limiterVars, pc, frameVars, callVars, requestVars, batchVars>>
pureVars == <<bk_base, bk_max, bk_rc, bk_prev, bk_out, norm_in, norm_out, norm_done>>
vars == <<stockVars, currencyVars, pureVars>>

TickerSet == 1..Len(tickers)
\* ThreadPoolExecutor(max_workers=min(max_workers, len(tickers)))
PoolSize == Min(max_workers, Len(tickers))
Pool == 1..PoolSize
\* if use_threading and len(tickers) > 1
Threaded == use_threading /\ Len(tickers) > 1

\* ------------------------------------------------------------ RateLimiter
\* [t for t in self.request_times if now - t < 60]
Prune(times, n) == SelectSeq(times, LAMBDA t : n - t < Window)

\* Faulty variant: the wait ends 0.1 s early
WaitTimeShort(n, oldest) == Max(0, Window - (n - oldest) - MinWait)

\* wait_time = max(0, 60 - (now - oldest_request))
WaitTime(n, oldest) == Max(0, Window - (n - oldest))

\* Faulty variant: the lock is never waited for
LockFreeAlways == TRUE

\* `with self.lock:` blocks until no thread holds the lock.
LockFree == lock = NoOwner

\* Faulty variant: the lock is kept on return
ReleaseNever == lock' = lock

\* Leaving the `with self.lock:` block on a return.
Release == lock' = NoOwner

\* The three checks of wait_if_needed that let a call through at once.
UnderBurst(times) == Len(times) < burst
\* Faulty variant: the per-minute check lets one more through
UnderPerMinuteLax(times) == Len(times) <= requests_per_minute
\* Faulty variant: no wait is small enough to be skipped
NegligibleWaitNever(n, times) == FALSE

UnderPerMinute(times) == Len(times) < requests_per_minute
NegligibleWait(n, times) == WaitTime(n, times[1]) < MinWait

\* self.request_times.append(ts); return w  -- leaving the with block
AdmitAt(p, ts, how, w) ==
    /\ request_times' = Append(request_times, ts)
    /\ Release
    /\ branch' = [branch EXCEPT ![p] = how]
    /\ waited' = [waited EXCEPT ![p] = w]
    /\ now' = [now EXCEPT ![p] = 0]
    /\ wake' = [wake EXCEPT ![p] = 0]
    /\ admits' = [admits EXCEPT ![ctx[p]] = @ + 1]
    /\ pc' = [pc EXCEPT ![p] = "send"]
    /\ UNCHANGED <<pureVars, currencyVars, clock, ticks, burst, requests_per_minute, pruned, callVars,
                   hist, outcome, throttled, calls, sleeps, batchVars>>

\* wix.py:53  with self.lock:
Acquire(p) ==
    /\ pc[p] = "wait_if_needed"
    /\ LockFree
    /\ lock' = p
    /\ pc' = [pc EXCEPT ![p] = "read_now"]
    /\ UNCHANGED <<pureVars, currencyVars, clock, ticks, burst, requests_per_minute, request_times,
                   frameVars, callVars, requestVars, batchVars>>

\* wix.py:54-57  now = time.time(); the comprehension builds the pruned list
ReadNow(p) ==
    /\ pc[p] = "read_now"
    /\ now' = [now EXCEPT ![p] = clock]
    /\ pruned' = [pruned EXCEPT ![p] = Prune(request_times, clock)]
    /\ pc' = [pc EXCEPT ![p] = "prune"]
    /\ UNCHANGED <<pureVars, currencyVars, clock, ticks, limiterVars, wake, branch, waited,
                   callVars, requestVars, batchVars>>

\* wix.py:57  self.request_times = <the pruned list>
WritePruned(p) ==
    /\ pc[p] = "prune"
    /\ request_times' = pruned[p]
    /\ pruned' = [pruned EXCEPT ![p] = <<>>]
    /\ pc' = [pc EXCEPT ![p] = "decide"]
    /\ UNCHANGED <<pureVars, currencyVars, clock, ticks, burst, requests_per_minute, lock, now, wake, branch,
                   waited, callVars, requestVars, batchVars>>

\* wix.py:60-62  fewer requests than the burst limit
AdmitBurst(p) ==
    /\ pc[p] = "decide"
    /\ UnderBurst(request_times)
    /\ AdmitAt(p, now[p], "burst", 0)

\* wix.py:65-67  under the per-minute limit
AdmitPerMinute(p) ==
    /\ pc[p] = "decide"
    /\ ~UnderBurst(request_times)
    /\ UnderPerMinute(request_times)
    /\ AdmitAt(p, now[p], "per_minute", 0)

\* wix.py:70-76  the wait is very small: just proceed
AdmitNegligible(p) ==
    /\ pc[p] = "decide"
    /\ ~UnderBurst(request_times)
    /\ ~UnderPerMinute(request_times)
    /\ NegligibleWait(now[p], request_times)
    /\ AdmitAt(p, now[p], "negligible", 0)

\* wix.py:79  time.sleep(wait_time), entered with the lock held
StartSleep(p) ==
    /\ pc[p] = "decide"
    /\ ~UnderBurst(request_times)
    /\ ~UnderPerMinute(request_times)
    /\ ~NegligibleWait(now[p], request_times)
    /\ wake' = [wake EXCEPT ![p] = clock + WaitTime(now[p], request_times[1])]
    /\ waited' = [waited EXCEPT ![p] = WaitTime(now[p], request_times[1])]
    /\ pc' = [pc EXCEPT ![p] = "sleeping"]
    /\ UNCHANGED <<pureVars, currencyVars, clock, ticks, limiterVars, now, pruned, branch,
                   callVars, requestVars, batchVars>>

\* wix.py:79-81  the sleep ends; append time.time(); return wait_time
EndSleep(p) ==
    /\ pc[p] = "sleeping"
    /\ clock >= wake[p]
    /\ AdmitAt(p, clock, "slept", waited[p])

\* --------------------------------------------- calculate_backoff_time
\* wait_time = min(max_wait, base_wait_time * 2 ** retry_count), plus a jitter of
\* wait_time * 0.1 * u for a draw u of random.random() * 2 - 1 (here u is in
\* tenths), floored at 0.1 s. All durations are in ticks.
\* The exact value is kept in hundredths of a tick: with u in tenths the
\* jitter wait_time * 0.1 * (u / 10) is wait_time * u hundredths.
\* Faulty variant: the jitter is twice as wide
backoff_wide_jitter(base_wait_time, rc, max_wait, u) ==
    LET wait_time == Min(max_wait, base_wait_time * Pow2(rc))
        jitter == 2 * wait_time * u
    IN Max(100 * MinWait, 100 * wait_time + jitter)

\* Faulty variant: the wait does not grow with retry_count
backoff_flat(base_wait_time, rc, max_wait, u) ==
    LET wait_time == Min(max_wait, base_wait_time)
        jitter == wait_time * u
    IN Max(100 * MinWait, 100 * wait_time + jitter)

calculate_backoff_time_exact(base_wait_time, rc, max_wait, u) ==
    LET wait_time == Min(max_wait, base_wait_time * Pow2(rc))
        jitter == wait_time * u
    IN Max(100 * MinWait, 100 * wait_time + jitter)

\* The value as time.sleep sees it on the clock: whole ticks.
calculate_backoff_time(base_wait_time, rc, max_wait, u) ==
    calculate_backoff_time_exact(base_wait_time, rc, max_wait, u) \div 100

\* Every draw of random.random() * 2 - 1, in tenths.
JitterRange == (0 - 10) .. 10

\* Arguments calculate_backoff_time is exercised with, in ticks: waits below
\* and above the 0.1 s floor, and caps below and above the doubling base.
BackoffBases == {1, 2, 3, BackoffBase * TicksPerSecond}
BackoffCaps == {1, (3 * BackoffBase * TicksPerSecond) \div 2,
                DefaultMaxWait * TicksPerSecond}

\* calculate_backoff_time(bk_base, bk_rc, bk_max) is called, as the retries of
\* one request call it: with retry_count 0, 1, 2, ...
BackoffCall(u) ==
    /\ bk_rc <= MaxBackoffRetry
    /\ bk_out' = calculate_backoff_time_exact(bk_base, bk_rc, bk_max, u)
    /\ bk_prev' = bk_out
    /\ bk_rc' = bk_rc + 1
    /\ UNCHANGED <<stockVars, currencyVars, bk_base, bk_max, norm_in, norm_out, norm_done>>

\* ------------------------------------------------------- _make_request
\* Faulty variant: one retry too many
ShouldRetryOnceMore(r, rc) == r = "s429" /\ rc <= DefaultMaxRetries

\* Faulty variant: every failed send is retried
ShouldRetryAnyFailure(r, rc) == r \notin JsonBodies /\ rc < DefaultMaxRetries

\* Faulty variant: a 429 is retried without end
ShouldRetryAlways(r, rc) == r = "s429"

\* wix.py:148  response.status_code == 429 and retry_count < max_retries
ShouldRetry(r, rc) == r = "s429" /\ rc < DefaultMaxRetries

\* wix.py:158-168  raise_for_status(); return response.json(); every
\* RequestException (HTTPError and JSONDecodeError are RequestExceptions) is
\* logged and None is returned.
MakeRequestResult(r) == IF r \in JsonBodies THEN r ELSE "none"

\* wix.py:142-147  wait_if_needed returned (its value is only logged); the
\* request is sent and answered r
Sent(p, r) ==
    /\ pc[p] = "send"
    /\ hist' = [hist EXCEPT ![ctx[p]] = Append(@, r)]
    /\ branch' = [branch EXCEPT ![p] = "none"]
    /\ waited' = [waited EXCEPT ![p] = 0]

\* wix.py:148-153  answered 429 with retries left: sleep the backoff time
SendRetry(p, r) ==
    /\ Sent(p, r)
    /\ ShouldRetry(r, retry_count[p])
    /\ throttled > 0
    /\ throttled' = throttled - 1
    /\ sleeps' = [sleeps EXCEPT ![ctx[p]] = Append(@, retry_count[p])]
    /\ \E u \in JitterDraws :
         wake' = [wake EXCEPT ![p] = clock + calculate_backoff_time(
                     BackoffBase * TicksPerSecond, retry_count[p],
                     DefaultMaxWait * TicksPerSecond, u)]
    /\ pc' = [pc EXCEPT ![p] = "backoff"]
    /\ UNCHANGED <<pureVars, currencyVars, clock, ticks, limiterVars, now, pruned, callVars, outcome, calls,
                   admits, batchVars>>

\* wix.py:158-168  anything else: the call returns the JSON body or None
SendReturn(p, r) ==
    /\ Sent(p, r)
    /\ ~ShouldRetry(r, retry_count[p])
    /\ r = "s429" => throttled > 0
    /\ throttled' = IF r = "s429" THEN throttled - 1 ELSE throttled
    /\ ret' = [ret EXCEPT ![p] = MakeRequestResult(r)]
    /\ outcome' = IF ctx[p] = Status THEN outcome
                  ELSE [outcome EXCEPT ![ctx[p]] = MakeRequestResult(r)]
    /\ pc' = [pc EXCEPT ![p] = "returned"]
    /\ UNCHANGED <<pureVars, currencyVars, clock, ticks, limiterVars, now, pruned, wake, retry_count, ctx,
                   calls, admits, sleeps, batchVars>>

\* Faulty variant: the retry sends without asking the limiter
RetryEntrySkipsLimiter == "send"

\* wix.py:156, 142  the recursive _make_request starts with wait_if_needed
RetryEntry == "wait_if_needed"

\* wix.py:153-156  time.sleep(backoff_time) ends; recurse with retry_count + 1
EndBackoff(p) ==
    /\ pc[p] = "backoff"
    /\ clock >= wake[p]
    /\ retry_count' = [retry_count EXCEPT ![p] = @ + 1]
    /\ wake' = [wake EXCEPT ![p] = 0]
    /\ pc' = [pc EXCEPT ![p] = RetryEntry]
    /\ UNCHANGED <<pureVars, currencyVars, clock, ticks, limiterVars, now, pruned, branch, waited, ctx, ret,
                   requestVars, batchVars>>

\* The outermost _make_request frame is left: its attempt counters are gone.
Forget(k) ==
    /\ hist' = [hist EXCEPT ![k] = <<>>]
    /\ admits' = [admits EXCEPT ![k] = 0]
    /\ sleeps' = [sleeps EXCEPT ![k] = <<>>]
    /\ UNCHANGED <<pureVars, currencyVars, outcome, throttled, calls>>

\* ------------------------------------------- get_stock_data_for_ticker
\* wix.py:182-215  get_previous_close gives `result or {"results": []}`; the
\* ticker's list holds one record when results is non-empty, else nothing.
TickerData(t, r) == IF r = "ok" THEN <<t>> ELSE <<>>

\* _process_ticker_data calls data.get on results[0]: it raises when that is
\* no mapping, and the exception leaves get_stock_data_for_ticker.
Raises(r) == r = "malformed"

\* ------------------------------------------------------ get_stock_data
\* wix.py:255-259  the ticker's list, or [] when the call raised
Guarded(t, r) == IF Raises(r) THEN <<>> ELSE TickerData(t, r)

\* Faulty variant: storing one entry overwrites the others
StoreClobber(d, t, v) == [k \in DOMAIN d \cup {t} |-> v]

\* all_data[ticker] = value
Store(d, t, v) == [k \in DOMAIN d \cup {t} |-> IF k = t THEN v ELSE d[k]]

\* wix.py:227-232  get_market_status returned; the threaded path is taken
EnterPool ==
    /\ pc[Main] = "returned"
    /\ ctx[Main] = Status
    /\ Threaded
    /\ seq_i' = 1
    /\ ret' = [ret EXCEPT ![Main] = "none"]
    /\ Forget(Status)
    /\ pc' = [pc EXCEPT ![Main] = "submit"]
    /\ UNCHANGED <<pureVars, currencyVars, clock, ticks, limiterVars, frameVars, retry_count, ctx,
                   tickers, use_threading, max_workers, queue, future, all_data>>

\* wix.py:238-241  executor.submit(self.get_stock_data_for_ticker, ticker, days)
Submit ==
    /\ pc[Main] = "submit"
    /\ seq_i <= Len(tickers)
    /\ queue' = Append(queue, tickers[seq_i])
    /\ future' = [future EXCEPT ![tickers[seq_i]] = [state |-> "pending", value |-> <<>>]]
    /\ seq_i' = seq_i + 1
    /\ UNCHANGED <<pureVars, currencyVars, clock, ticks, limiterVars, pc, frameVars, callVars, requestVars,
                   tickers, use_threading, max_workers, all_data>>

\* wix.py:244  every ticker is submitted; iterate as_completed
AwaitCompleted ==
    /\ pc[Main] = "submit"
    /\ seq_i > Len(tickers)
    /\ pc' = [pc EXCEPT ![Main] = "as_completed"]
    /\ UNCHANGED <<pureVars, currencyVars, clock, ticks, limiterVars, frameVars, callVars, requestVars, batchVars>>

\* A pool thread takes the next work item and runs get_stock_data_for_ticker.
TakeTask(p) ==
    /\ p \in Pool
    /\ pc[p] = "idle"
    /\ queue /= <<>>
    /\ ctx' = [ctx EXCEPT ![p] = Head(queue)]
    /\ queue' = Tail(queue)
    /\ future' = [future EXCEPT ![Head(queue)] = [state |-> "running", value |-> <<>>]]
    /\ retry_count' = [retry_count EXCEPT ![p] = 0]
    /\ pc' = [pc EXCEPT ![p] = "wait_if_needed"]
    /\ UNCHANGED <<pureVars, currencyVars, clock, ticks, limiterVars, frameVars, ret, requestVars,
                   tickers, use_threading, max_workers, all_data, seq_i>>

\* The pool thread's call returned or raised: the future is set.
FinishTask(p) ==
    /\ p \in Pool
    /\ pc[p] = "returned"
    /\ future' = [future EXCEPT ![ctx[p]] =
                    IF Raises(ret[p])
                    THEN [state |-> "exception", value |-> <<>>]
                    ELSE [state |-> "result", value |-> TickerData(ctx[p], ret[p])]]
    /\ Forget(ctx[p])
    /\ ret' = [ret EXCEPT ![p] = "none"]
    /\ retry_count' = [retry_count EXCEPT ![p] = 0]
    /\ ctx' = [ctx EXCEPT ![p] = Status]
    /\ pc' = [pc EXCEPT ![p] = "idle"]
    /\ UNCHANGED <<pureVars, currencyVars, clock, ticks, limiterVars, frameVars,
                   tickers, use_threading, max_workers, queue, all_data, seq_i>>

\* Faulty variant: the result of the future is dropped
FutureValueDropped(f) == <<>>

\* wix.py:246-251  future.result() inside the try: the list, or [] when the
\* call raised
FutureValue(f) == IF f.state = "exception" THEN <<>> ELSE f.value

\* wix.py:244-251  as_completed yields a finished future; its entry is stored
Collect(t) ==
    /\ pc[Main] = "as_completed"
    /\ t \in TickerSet
    /\ t \notin DOMAIN all_data
    /\ future[t].state \in {"result", "exception"}
    /\ all_data' = Store(all_data, t, FutureValue(future[t]))
    /\ UNCHANGED <<pureVars, currencyVars, clock, ticks, limiterVars, pc, frameVars, callVars, requestVars,
                   tickers, use_threading, max_workers, queue, future, seq_i>>

\* Faulty variant: the loop ends with the first future
AnyCompleted == \E t \in TickerSet : t \in DOMAIN all_data

\* as_completed is exhausted: every submitted future was yielded.
AllCompleted == \A t \in TickerSet : t \in DOMAIN all_data

\* ThreadPoolExecutor.__exit__ is shutdown(wait=True): no queued item, no
\* running pool thread.
PoolQuiet == queue = <<>> /\ \A p \in Pool : pc[p] = "idle"

\* wix.py:236-261  the loop and the with block end; return all_data
ReturnThreaded ==
    /\ pc[Main] = "as_completed"
    /\ AllCompleted
    /\ PoolQuiet
    /\ pc' = [pc EXCEPT ![Main] = "done"]
    /\ UNCHANGED <<pureVars, currencyVars, clock, ticks, limiterVars, frameVars, callVars, requestVars, batchVars>>

\* wix.py:227-232, 252-254  get_market_status returned; the sequential path
EnterLoop ==
    /\ pc[Main] = "returned"
    /\ ctx[Main] = Status
    /\ ~Threaded
    /\ seq_i' = 1
    /\ ret' = [ret EXCEPT ![Main] = "none"]
    /\ Forget(Status)
    /\ pc' = [pc EXCEPT ![Main] = "for_loop"]
    /\ UNCHANGED <<pureVars, currencyVars, clock, ticks, limiterVars, frameVars, retry_count, ctx,
                   tickers, use_threading, max_workers, queue, future, all_data>>

\* wix.py:254-256  the next ticker's get_stock_data_for_ticker is called
LoopCall ==
    /\ pc[Main] = "for_loop"
    /\ seq_i <= Len(tickers)
    /\ ctx' = [ctx EXCEPT ![Main] = tickers[seq_i]]
    /\ retry_count' = [retry_count EXCEPT ![Main] = 0]
    /\ pc' = [pc EXCEPT ![Main] = "wait_if_needed"]
    /\ UNCHANGED <<pureVars, currencyVars, clock, ticks, limiterVars, frameVars, ret, requestVars, batchVars>>

\* wix.py:255-259  the call returned or raised; the ticker's entry is stored
LoopStore ==
    /\ pc[Main] = "returned"
    /\ ctx[Main] /= Status
    /\ all_data' = Store(all_data, ctx[Main], Guarded(ctx[Main], ret[Main]))
    /\ seq_i' = seq_i + 1
    /\ Forget(ctx[Main])
    /\ ret' = [ret EXCEPT ![Main] = "none"]
    /\ retry_count' = [retry_count EXCEPT ![Main] = 0]
    /\ ctx' = [ctx EXCEPT ![Main] = Status]
    /\ pc' = [pc EXCEPT ![Main] = "for_loop"]
    /\ UNCHANGED <<pureVars, currencyVars, clock, ticks, limiterVars, frameVars,
                   tickers, use_threading, max_workers, queue, future>>

\* wix.py:254, 261  the for loop is over; return all_data
ReturnSequential ==
    /\ pc[Main] = "for_loop"
    /\ seq_i > Len(tickers)
    /\ pc' = [pc EXCEPT ![Main] = "done"]
    /\ UNCHANGED <<pureVars, currencyVars, clock, ticks, limiterVars, frameVars, callVars, requestVars, batchVars>>

\* ------------------------------------------------------------ the clock
\* Instants at which something changes: the end of a sleep, and the tick
\* before and the tick at which the oldest request leaves the window.
TickTargets ==
    {wake[p] : p \in {q \in Procs : pc[q] \in {"sleeping", "backoff"}}}
    \cup (IF request_times = <<>> THEN {}
          ELSE {request_times[1] + Window - 1, request_times[1] + Window})

\* A thread that only the passing of time, or another thread, can move on.
Waiting(q) ==
    \/ pc[q] \in {"sleeping", "backoff", "idle", "done", "as_completed"}
    \/ pc[q] = "wait_if_needed" /\ ~LockFree

\* Every running thread sleeps: time passes until the first of them wakes.
Elapse ==
    /\ \A q \in Procs : Waiting(q)
    /\ LET wakes == {wake[q] : q \in {x \in Procs : pc[x] \in {"sleeping", "backoff"}}}
       IN /\ wakes /= {}
          /\ \E c \in wakes : c > clock /\ (\A w \in wakes : c <= w) /\ clock' = c
    /\ UNCHANGED <<pureVars, currencyVars, ticks, limiterVars, pc, frameVars, callVars, requestVars, batchVars>>

\* time.time() advances.
Tick ==
    /\ ticks > 0
    /\ ticks' = ticks - 1
    /\ \E c \in TickTargets : c > clock /\ clock' = c
    /\ UNCHANGED <<pureVars, currencyVars, limiterVars, pc, frameVars, callVars, requestVars, batchVars>>

\* A caller that uses the limiter alone calls wait_if_needed once more.
CallAgain(p) ==
    /\ pc[p] = "send"
    /\ calls > 0
    /\ calls' = calls - 1
    /\ branch' = [branch EXCEPT ![p] = "none"]
    /\ waited' = [waited EXCEPT ![p] = 0]
    /\ admits' = [admits EXCEPT ![ctx[p]] = 0]
    /\ pc' = [pc EXCEPT ![p] = "wait_if_needed"]
    /\ UNCHANGED <<pureVars, currencyVars, clock, ticks, limiterVars, now, pruned, wake, callVars,
                   hist, outcome, throttled, sleeps, batchVars>>

\* ------------------------------------------------------- specification
TickerLists == {[i \in 1..n |-> i] : n \in 0..DefaultTickerCount}

\* RateLimiter.__init__ and the locals of threads that have not started.
Fresh ==
    /\ clock = 0
    /\ request_times = <<>>
    /\ lock = NoOwner
    /\ now = [p \in Procs |-> 0]
    /\ pruned = [p \in Procs |-> <<>>]
    /\ wake = [p \in Procs |-> 0]
    /\ branch = [p \in Procs |-> "none"]
    /\ waited = [p \in Procs |-> 0]
    /\ retry_count = [p \in Procs |-> 0]
    /\ ctx = [p \in Procs |-> Status]
    /\ ret = [p \in Procs |-> "none"]
    /\ hist = [k \in Keys |-> <<>>]
    /\ outcome = [t \in 1..DefaultTickerCount |-> "pending"]
    /\ admits = [k \in Keys |-> 0]
    /\ sleeps = [k \in Keys |-> <<>>]
    /\ queue = <<>>
    /\ future = [t \in 1..DefaultTickerCount |-> [state |-> "none", value |-> <<>>]]
    /\ all_data = <<>>
    /\ seq_i = 0
    /\ cur_i = 0
    /\ cur_rates = EmptyDict
    /\ cur_data = <<>>
    /\ cur_hist = <<>>

\* No get_currency_data call is in progress.
NoCurrencyCall == cur_days = 0 /\ cur_pc = "idle"

\* calculate_backoff_time is not exercised on its own.
NoBackoffCall ==
    bk_base = 0 /\ bk_max = 0 /\ bk_rc = 0 /\ bk_prev = NoValue /\ bk_out = NoValue

\* _process_ticker_data is not exercised on its own.
NoNormalizerCall ==
    /\ norm_in = [ticker |-> 0, date |-> NoDate, data |-> <<>>, is_prev_close |-> TRUE]
    /\ norm_out = <<>>
    /\ norm_done = TRUE

\* get_stock_data(tickers, use_threading=..., max_workers=...) is called with a
\* prefix of the default tickers, on a PolygonStockAPI whose limiter has the
\* default or the tightest configuration.
Init ==
    /\ Fresh
    /\ NoCurrencyCall
    /\ NoBackoffCall
    /\ NoNormalizerCall
    /\ ticks \in 0..BatchEvents
    /\ throttled = BatchEvents - ticks
    /\ calls = 0
    /\ burst \in {1, DefaultBurst}
    /\ requests_per_minute \in {1, DefaultRequestsPerMin}
    /\ pc = [p \in Procs |-> IF p = Main THEN "wait_if_needed" ELSE "idle"]
    /\ tickers \in TickerLists
    /\ use_threading \in BOOLEAN
    /\ max_workers \in {1, DefaultMaxWorkers}

Next ==
    \/ \E p \in Procs : Acquire(p)
    \/ \E p \in Procs : ReadNow(p)
    \/ \E p \in Procs : WritePruned(p)
    \/ \E p \in Procs : AdmitBurst(p)
    \/ \E p \in Procs : AdmitPerMinute(p)
    \/ \E p \in Procs : AdmitNegligible(p)
    \/ \E p \in Procs : StartSleep(p)
    \/ \E p \in Procs : EndSleep(p)
    \/ \E p \in Procs, r \in Responses : SendRetry(p, r)
    \/ \E p \in Procs, r \in Responses : SendReturn(p, r)
    \/ \E p \in Procs : EndBackoff(p)
    \/ EnterPool
    \/ Submit
    \/ AwaitCompleted
    \/ \E p \in Procs : TakeTask(p)
    \/ \E p \in Procs : FinishTask(p)
    \/ \E t \in 1..DefaultTickerCount : Collect(t)
    \/ ReturnThreaded
    \/ EnterLoop
    \/ LoopCall
    \/ LoopStore
    \/ ReturnSequential
    \/ Elapse
    \/ Tick

Spec == Init /\ [][Next]_vars

\* One request alone: get_stock_data([]) makes the get_market_status request
\* and returns.
InitRequest ==
    /\ Fresh
    /\ NoCurrencyCall
    /\ NoBackoffCall
    /\ NoNormalizerCall
    /\ ticks = MaxTicks
    /\ throttled = Max429
    /\ calls = 0
    /\ burst \in {1, DefaultBurst}
    /\ requests_per_minute \in {1, DefaultRequestsPerMin}
    /\ pc = [p \in Procs |-> IF p = Main THEN "wait_if_needed" ELSE "idle"]
    /\ tickers = <<>>
    /\ use_threading \in BOOLEAN
    /\ max_workers = DefaultMaxWorkers

NextRequest ==
    \/ Acquire(Main)
    \/ ReadNow(Main)
    \/ WritePruned(Main)
    \/ AdmitBurst(Main)
    \/ AdmitPerMinute(Main)
    \/ AdmitNegligible(Main)
    \/ StartSleep(Main)
    \/ EndSleep(Main)
    \/ \E r \in Responses : SendRetry(Main, r)
    \/ \E r \in Responses : SendReturn(Main, r)
    \/ EndBackoff(Main)
    \/ EnterLoop
    \/ ReturnSequential
    \/ Elapse
    \/ Tick

SpecRequest == InitRequest /\ [][NextRequest]_vars

\* The calling thread keeps running: every send is answered and every sleep
\* ends.
SpecRequestFair == SpecRequest /\ WF_vars(NextRequest)

\* The limiter alone: every thread calls wait_if_needed, again and again.
InitLimiter ==
    /\ Fresh
    /\ NoCurrencyCall
    /\ NoBackoffCall
    /\ NoNormalizerCall
    /\ ticks = MaxTicks
    /\ throttled = 0
    /\ calls = MaxCalls
    /\ burst \in {1, 2, DefaultBurst}
    /\ requests_per_minute \in {1, 2, DefaultRequestsPerMin}
    /\ pc = [p \in Procs |-> "wait_if_needed"]
    /\ tickers = <<>>
    /\ use_threading = FALSE
    /\ max_workers = DefaultMaxWorkers

NextLimiter ==
    \/ \E p \in Procs : Acquire(p)
    \/ \E p \in Procs : ReadNow(p)
    \/ \E p \in Procs : WritePruned(p)
    \/ \E p \in Procs : AdmitBurst(p)
    \/ \E p \in Procs : AdmitPerMinute(p)
    \/ \E p \in Procs : AdmitNegligible(p)
    \/ \E p \in Procs : StartSleep(p)
    \/ \E p \in Procs : EndSleep(p)
    \/ \E p \in Procs : CallAgain(p)
    \/ Tick

SpecLimiter == InitLimiter /\ [][NextLimiter]_vars

\* wix.py:79  time passes while a thread is in time.sleep(wait_time): the
\* clock reaches the instant at which the sleep ends.
SleepPasses(p) ==
    /\ pc[p] = "sleeping"
    /\ clock < wake[p]
    /\ clock' = wake[p]
    /\ UNCHANGED <<pureVars, currencyVars, ticks, limiterVars, pc, frameVars, callVars,
                   requestVars, batchVars>>

\* The steps one thread takes inside wait_if_needed once it has the lock.
LimiterStep(p) ==
    \/ ReadNow(p)
    \/ WritePruned(p)
    \/ AdmitBurst(p)
    \/ AdmitPerMinute(p)
    \/ AdmitNegligible(p)
    \/ StartSleep(p)
    \/ EndSleep(p)

\* The limiter alone, every thread calling wait_if_needed, on the default or
\* the tightest configuration.
InitLimiterFair ==
    /\ Fresh
    /\ NoCurrencyCall
    /\ NoBackoffCall
    /\ NoNormalizerCall
    /\ ticks = FairTicks
    /\ throttled = 0
    /\ calls = FairCalls
    /\ burst \in {1, DefaultBurst}
    /\ requests_per_minute \in {1, DefaultRequestsPerMin}
    /\ pc = [p \in Procs |-> "wait_if_needed"]
    /\ tickers = <<>>
    /\ use_threading = FALSE
    /\ max_workers = DefaultMaxWorkers

NextLimiterFair ==
    \/ \E p \in Procs : Acquire(p)
    \/ \E p \in Procs : LimiterStep(p)
    \/ \E p \in Procs : SleepPasses(p)
    \/ \E p \in Procs : CallAgain(p)
    \/ Tick

\* The limiter alone under fair scheduling: a running thread takes its next
\* step, every sleep ends, and a thread that finds the lock free again and
\* again gets it.
SpecLimiterFair ==
    /\ InitLimiterFair
    /\ [][NextLimiterFair]_vars
    /\ \A p \in Procs :
          /\ SF_vars(Acquire(p))
          /\ WF_vars(LimiterStep(p))
          /\ WF_vars(SleepPasses(p))

\* ------------------------------------------------ FrankfurterCurrencyAPI
\* The "rates" mapping of a 2xx answer, as its items() in order.
RatePayloads ==
    { <<>>,
      <<[currency |-> "EUR", rate |-> 1]>>,
      <<[currency |-> "EUR", rate |-> 1], [currency |-> "ILS", rate |-> 4]>> }

\* What requests.get(url) for one date can end in (wix.py:296-298).
\*   "rates"    2xx, a JSON mapping with "rates"
\*   "norates"  2xx, a JSON mapping without "rates"
\*   "nondict"  2xx, JSON of another form (null, a number, "rates" no mapping)
\*   "badjson"  2xx, body that response.json() cannot parse
\*   "s404"     HTTP 404
\*   "http"     any other non-2xx status
\*   "neterr"   connection error or timeout
DateResponses ==
    {[kind |-> "rates", payload |-> b] : b \in RatePayloads}
    \cup {[kind |-> k, payload |-> <<>>] :
             k \in {"norates", "nondict", "badjson", "s404", "http", "neterr"}}

\* Faulty variant: the HTTPError of a 404 is not caught
get_historical_rates_404_raises(r) ==
    IF r.kind \in {"rates", "norates", "nondict"}
    THEN [shape |-> r.kind, rates |-> r.payload]
    ELSE IF r.kind = "s404" THEN [shape |-> "exception", rates |-> <<>>]
    ELSE EmptyDict

\* wix.py:295-307  raise_for_status(); return response.json(); every
\* RequestException (HTTPError of a 404 included) is logged and {} is returned.
get_historical_rates(r) ==
    IF r.kind \in {"rates", "norates", "nondict"}
    THEN [shape |-> r.kind, rates |-> r.payload]
    ELSE EmptyDict

\* wix.py:320-326  one record per item of rates["rates"], for the date that is
\* i days before end_date
RateRecords(i, items) ==
    [j \in 1..Len(items) |->
        [date |-> i, from_currency |-> "USD",
         to_currency |-> items[j].currency, rate |-> items[j].rate]]

\* wix.py:314-318  the next date's get_historical_rates is called and answered r
CurrencyLookup(r) ==
    /\ cur_pc = "for_loop"
    /\ cur_i < cur_days
    /\ cur_rates' = get_historical_rates(r)
    /\ cur_hist' = Append(cur_hist, r)
    /\ cur_pc' = "got_rates"
    /\ UNCHANGED <<stockVars, pureVars, cur_days, cur_i, cur_data>>

\* wix.py:319-326  if "rates" in rates: the date's records are appended
CurrencyExtend ==
    /\ cur_pc = "got_rates"
    /\ cur_rates.shape \in {"rates", "norates"}
    /\ cur_data' = IF cur_rates.shape = "rates"
                   THEN cur_data \o RateRecords(cur_i, cur_rates.rates)
                   ELSE cur_data
    /\ cur_i' = cur_i + 1
    /\ cur_rates' = EmptyDict
    /\ cur_pc' = "for_loop"
    /\ UNCHANGED <<stockVars, pureVars, cur_days, cur_hist>>

\* wix.py:319-320  `"rates" in rates` or rates["rates"].items() raises on JSON
\* of another form; nothing in get_currency_data catches it
CurrencyRaise ==
    /\ cur_pc = "got_rates"
    /\ cur_rates.shape \in {"nondict", "exception"}
    /\ cur_rates' = EmptyDict
    /\ cur_pc' = "raised"
    /\ UNCHANGED <<stockVars, pureVars, cur_days, cur_i, cur_data, cur_hist>>

\* wix.py:314, 328  range(days) is exhausted; return all_data
CurrencyReturn ==
    /\ cur_pc = "for_loop"
    /\ cur_i >= cur_days
    /\ cur_pc' = "done"
    /\ UNCHANGED <<stockVars, pureVars, cur_days, cur_i, cur_rates, cur_data, cur_hist>>

\* No get_stock_data call is in progress.
NoStockCall ==
    /\ Fresh
    /\ ticks = 0
    /\ throttled = 0
    /\ calls = 0
    /\ burst = DefaultBurst
    /\ requests_per_minute = DefaultRequestsPerMin
    /\ pc = [p \in Procs |-> "idle"]
    /\ tickers = <<>>
    /\ use_threading = FALSE
    /\ max_workers = DefaultMaxWorkers

\* get_currency_data(days) is called; no stock request is in progress.
InitCurrency ==
    /\ NoStockCall
    /\ NoBackoffCall
    /\ NoNormalizerCall
    /\ cur_days \in 0..MaxDays
    /\ cur_pc = "for_loop"

\* calculate_backoff_time alone, on every argument and draw.
InitBackoff ==
    /\ NoStockCall
    /\ NoCurrencyCall
    /\ NoNormalizerCall
    /\ bk_base \in BackoffBases
    /\ bk_max \in BackoffCaps
    /\ bk_rc = 0
    /\ bk_prev = NoValue
    /\ bk_out = NoValue

NextBackoff == \E u \in JitterRange : BackoffCall(u)

SpecBackoff == InitBackoff /\ [][NextBackoff]_vars

\* ------------------------------------------------ _process_ticker_data
\* The abbreviated numeric fields of an upstream record.
Fields == {"o", "h", "l", "c", "v"}
FieldValues == {0, 7}

\* Raw payloads: mappings that carry any subset of the numeric fields.
RawPayloads == UNION {[S -> FieldValues] : S \in SUBSET Fields}

\* The date argument: a datetime.datetime, or an already formatted string.
DateArgs == {[type |-> "datetime", day |-> 1], [type |-> "str", day |-> 1]}

\* data.get(key, default)
Get(data, key, default) == IF key \in DOMAIN data THEN data[key] ELSE default

\* wix.py:115  date.strftime("%Y-%m-%d") if isinstance(date, datetime.datetime)
\* else date
DateStr(date) ==
    IF date.type = "datetime" THEN [type |-> "str", day |-> date.day] ELSE date

\* wix.py:107-127  The returned value as a sequence: <<record>>, or <<>> for
\* None. Only the is_prev_close branch exists; otherwise the function falls
\* off its end and returns None.
process_ticker_data(ticker, date, data, is_prev_close) ==
    IF is_prev_close
    THEN << [ticker |-> ticker,
             date   |-> DateStr(date),
             open   |-> Get(data, "o", 0),
             high   |-> Get(data, "h", 0),
             low    |-> Get(data, "l", 0),
             close  |-> Get(data, "c", 0),
             volume |-> Get(data, "v", 0)] >>
    ELSE <<>>

\* _process_ticker_data(ticker, date, data, is_prev_close) is called and returns.
Normalize ==
    /\ ~norm_done
    /\ norm_out' = process_ticker_data(norm_in.ticker, norm_in.date, norm_in.data,
                                       norm_in.is_prev_close)
    /\ norm_done' = TRUE
    /\ UNCHANGED <<stockVars, currencyVars, bk_base, bk_max, bk_rc, bk_prev, bk_out,
                   norm_in>>

\* _process_ticker_data alone, on payloads of both endpoints.
InitNormalizer ==
    /\ NoStockCall
    /\ NoCurrencyCall
    /\ NoBackoffCall
    /\ norm_in \in [ticker : 1..DefaultTickerCount, date : DateArgs,
                     data : RawPayloads, is_prev_close : BOOLEAN]
    /\ norm_out = <<>>
    /\ norm_done = FALSE

NextNormalizer == Normalize

SpecNormalizer == InitNormalizer /\ [][NextNormalizer]_vars

NextCurrency ==
    \/ \E r \in DateResponses : CurrencyLookup(r)
    \/ CurrencyExtend
    \/ CurrencyRaise
    \/ CurrencyReturn

SpecCurrency == InitCurrency /\ [][NextCurrency]_vars

\* ================================================================ claims
Inside(p) == pc[p] \in {"read_now", "prune", "decide", "sleeping"}
InWindow == Prune(request_times, clock)
IsPrefix(a, b) == Len(a) <= Len(b) /\ \A i \in 1..Len(a) : a[i] = b[i]
Last(h) == h[Len(h)]
Failures == {"neterr", "http", "badjson"}

\* C1: at every moment the number of recorded admissions whose timestamps lie
\* inside the trailing 60-second window is at most max(burst, requestsPerMinute).
C1_WindowNeverExceedsCap ==
    Len(InWindow) <= Max(burst, requests_per_minute)

\* C2: at most one thread is between reading the time and appending its
\* timestamp (the lock holder), and no step of any thread drops a timestamp
\* that is still inside the window, so every decision sees the timestamps of
\* all calls completed before it.
C2_AdmitIsAtomic ==
    [][ /\ \A p, q \in Procs : (Inside(p) /\ Inside(q))' => p = q
        /\ \A p \in Procs : Inside(p)' => lock' = p
        /\ IsPrefix(InWindow, Prune(request_times', clock)) ]_vars

\* C2 witness: one thread decides on a non-empty history, holding the lock,
\* while another thread is calling wait_if_needed.
C2_Witness ==
    \E p, q \in Procs :
        /\ p /= q
        /\ pc[p] = "decide" /\ lock = p /\ request_times /= <<>>
        /\ pc[q] = "wait_if_needed"

\* C3: the freshly pruned history never holds more than burst timestamps
\* (all of them inside the window).
C3_PrunedWithinBurst ==
    \A p \in Procs : pc[p] = "decide" => Len(request_times) <= burst

\* C4: a thread sleeping out the window inside wait_if_needed does not hold
\* the exclusion, so another caller can enter.
C4_SleeperHoldsNoLock ==
    \A p \in Procs : pc[p] = "sleeping" => lock /= p

\* C5: a thread sleeping the backoff after a 429 does not hold the limiter's
\* lock.
C5_BackoffHoldsNoLock ==
    \A p \in Procs : pc[p] = "backoff" => lock /= p

\* C5 witness: while one thread still sleeps its backoff, another has been
\* admitted and is about to send.
C5_Witness ==
    \E p, q \in Procs :
        /\ p /= q
        /\ pc[p] = "backoff" /\ clock < wake[p]
        /\ pc[q] = "send" /\ branch[q] /= "none"

\* C6 (as stated): a 200 on retry k < maxRetries gives success after exactly
\* k+1 sends, and with k = maxRetries the call fails.
C6_Original ==
    pc[Main] = "returned" /\ ctx[Main] = Status =>
        LET h == hist[Status]
            k == Len(h) - 1
        IN /\ \A i \in 1..k : h[i] = "s429"
           /\ (k < DefaultMaxRetries /\ Last(h) \in JsonBodies => ret[Main] = Last(h))
           /\ (k = DefaultMaxRetries => ret[Main] = "none")

\* C6 (amended): a 200 on retry k gives success after exactly k+1 sends for
\* every k <= maxRetries; the call fails on 429 only when all maxRetries+1
\* sends were answered 429.
C6_RetryUntilAnswered ==
    pc[Main] = "returned" /\ ctx[Main] = Status =>
        LET h == hist[Status]
            k == Len(h) - 1
        IN /\ \A i \in 1..k : h[i] = "s429"
           /\ k <= DefaultMaxRetries
           /\ admits[Status] = k + 1
           /\ (Last(h) \in JsonBodies => ret[Main] = Last(h))
           /\ (Last(h) = "s429" => k = DefaultMaxRetries /\ ret[Main] = "none")

\* C6 witness: three 429 answers, then a 200 on retry maxRetries: success.
C6_Witness ==
    /\ pc[Main] = "returned"
    /\ hist[Status] = <<"s429", "s429", "s429", "ok">>
    /\ ret[Main] = "ok"

\* C7: when get_stock_data returns, every ticker has its entry, decided by its
\* own request alone: its record when its request succeeded, [] when it
\* failed or its worker raised.
C7_ItemsIsolated ==
    pc[Main] = "done" =>
        \A t \in TickerSet :
            /\ t \in DOMAIN all_data
            /\ outcome[t] = "ok" => all_data[t] = <<t>>
            /\ outcome[t] /= "ok" => all_data[t] = <<>>

\* C7 witness: in one threaded batch one ticker's worker raised, or its
\* request failed, and the other ticker has its record.
C7_Witness ==
    /\ pc[Main] = "done"
    /\ Threaded
    /\ \E t, u \in TickerSet :
          /\ outcome[t] \in {"none", "malformed"} /\ all_data[t] = <<>>
          /\ outcome[u] = "ok" /\ all_data[u] = <<u>>

\* C8: get_stock_data returns only when every submitted ticker is finished:
\* the map then has exactly the submitted tickers as keys, nothing is queued
\* and no pool thread is running.
C8_ReturnsAfterAll ==
    pc[Main] = "done" =>
        /\ DOMAIN all_data = TickerSet
        /\ \A t \in TickerSet : outcome[t] /= "pending"
        /\ queue = <<>>
        /\ \A p \in Procs \ {Main} : pc[p] = "idle"
        /\ Threaded => \A t \in TickerSet : future[t].state \in {"result", "exception"}

\* C8 witness: a threaded batch of two tickers has returned.
C8_Witness ==
    pc[Main] = "done" /\ Threaded /\ Len(tickers) = 2 /\ PoolSize = 2

\* What the sequential for loop builds from the tickers' request outcomes.
RECURSIVE SequentialMap(_, _)
SequentialMap(i, d) ==
    IF i > Len(tickers) THEN d
    ELSE SequentialMap(i + 1,
            [k \in DOMAIN d \cup {tickers[i]} |->
                IF k = tickers[i]
                THEN (IF outcome[k] = "ok" THEN <<k>> ELSE <<>>)
                ELSE d[k]])

\* C9: threaded or not, get_stock_data returns the map the sequential loop
\* builds from the same per-ticker request outcomes.
C9_ThreadedEqualsSequential ==
    pc[Main] = "done" => all_data = SequentialMap(1, <<>>)

\* C9 witness: a threaded batch has returned in which the first ticker's
\* request failed and the second ticker's succeeded.
C9_Witness ==
    /\ pc[Main] = "done"
    /\ Threaded
    /\ outcome[1] = "none"
    /\ outcome[2] = "ok"

\* C10: only a 429 is followed by a backoff sleep and another send: a send that
\* ends in a transport failure, another non-2xx status or an unparseable body
\* makes the call return None at once.
C10_OnlyRetry429 ==
    [][ pc[Main] = "send" /\ pc'[Main] /= "send" =>
          LET h == hist'[Status]
          IN /\ Len(h) = Len(hist[Status]) + 1
             /\ \A i \in 1..(Len(h) - 1) : h[i] = "s429"
             /\ Last(h) \in Failures =>
                   /\ pc'[Main] = "returned"
                   /\ ret'[Main] = "none"
                   /\ sleeps' = sleeps
             /\ pc'[Main] = "backoff" => Last(h) = "s429" ]_vars

\* C10 witness: after one retry the send ends in an unparseable body and the
\* call has returned None.
C10_Witness ==
    /\ pc[Main] = "returned"
    /\ hist[Status] = <<"s429", "badjson">>
    /\ ret[Main] = "none"
    /\ sleeps[Status] = <<0>>

\* The records get_currency_data owes for the answers h to the dates from
\* position i on: those of every date answered with rates, in date order.
RECURSIVE OwedRecords(_, _)
OwedRecords(h, i) ==
    IF i > Len(h) THEN <<>>
    ELSE (IF h[i].kind = "rates" THEN RateRecords(i - 1, h[i].payload) ELSE <<>>)
         \o OwedRecords(h, i + 1)

\* C11: a date whose lookup is answered 404 adds no record and raises nothing:
\* the loop goes on to the next date, and the returned list holds the records
\* of every date that was answered with rates, all days having been looked up.
C11_NotFoundIsEmpty ==
    [][ /\ (cur_pc = "got_rates" /\ Last(cur_hist).kind = "s404" =>
               /\ cur_data' = cur_data
               /\ cur_pc' = "for_loop"
               /\ cur_i' = cur_i + 1)
        /\ (cur_pc' = "done" =>
               /\ Len(cur_hist') = cur_days'
               /\ cur_data' = OwedRecords(cur_hist', 1)) ]_vars

\* C11 witness: the call has returned; one date was answered 404 and a later
\* date's rates are in the returned list.
C11_Witness ==
    /\ cur_pc = "done"
    /\ \E i, j \in 1..Len(cur_hist) :
          /\ i < j
          /\ cur_hist[i].kind = "s404"
          /\ cur_hist[j].kind = "rates" /\ cur_hist[j].payload /= <<>>
    /\ cur_data /= <<>>

\* min(maxWait, baseWait * 2^r), in ticks
Nominal(r) == Min(bk_max, bk_base * Pow2(r))

\* v (hundredths of a tick) lies within 10% of w (ticks)
Within10(v, w) == 90 * w <= v /\ v <= 110 * w

\* C12 (as stated): every backoff value is at least 0.1 s and within 10% of
\* min(maxWait, baseWait * 2^retryCount).
C12_Original ==
    bk_rc > 0 =>
        /\ bk_out >= 100 * MinWait
        /\ Within10(bk_out, Nominal(bk_rc - 1))

\* C12 (amended): every backoff value is at least 0.1 s; it is within 10% of
\* w = min(maxWait, baseWait * 2^retryCount) whenever 0.9 * w >= 0.1 s, and
\* otherwise it is within 10% of w or is the 0.1 s floor itself.
C12_FlooredWithinTenth ==
    bk_rc > 0 =>
        LET w == Nominal(bk_rc - 1)
        IN /\ bk_out >= 100 * MinWait
           /\ (90 * w >= 100 * MinWait => Within10(bk_out, w))
           /\ (Within10(bk_out, w) \/ bk_out = 100 * MinWait)

\* C12 witness: a capped wait with a positive jitter has been returned, and it
\* is above the floor.
C12_Witness ==
    /\ bk_rc > 0
    /\ Nominal(bk_rc - 1) = bk_max
    /\ bk_base * Pow2(bk_rc - 1) > bk_max
    /\ bk_out > 100 * bk_max
    /\ bk_out > 100 * MinWait

\* C13 (as stated): for every pair of draws the value for retry r+1 is at
\* least the value for retry r.
C13_Original ==
    bk_rc > 1 => bk_out >= bk_prev

\* C13 (amended): for every pair of draws the value for retry r+1 is at least
\* the value for retry r while baseWait * 2^(r+1) <= maxWait; once the cap is
\* reached it may be smaller, but never below 9/11 of the earlier value.
C13_MonotoneBelowCap ==
    bk_rc > 1 =>
        /\ (bk_base * Pow2(bk_rc - 1) <= bk_max => bk_out >= bk_prev)
        /\ 11 * bk_out >= 9 * bk_prev

\* C13 witness: two successive values below the cap, the earlier with the
\* largest draw and the later with the smallest, and the later is larger.
C13_Witness ==
    /\ bk_rc > 1
    /\ bk_base * Pow2(bk_rc - 1) <= bk_max
    /\ bk_prev = 110 * Nominal(bk_rc - 2)
    /\ bk_out = 90 * Nominal(bk_rc - 1)
    /\ bk_out > bk_prev

\* The pruned count is under a limit, or the remaining wait is under 0.1 s.
Immediate(p) ==
    \/ Len(request_times) < burst
    \/ Len(request_times) < requests_per_minute
    \/ Window - (now[p] - request_times[1]) < MinWait

\* C14: the history is pruned of every record with now - t >= 60; then the
\* call appends its pre-decision now and returns 0 exactly when the count is
\* under burst, or under requestsPerMinute, or the remaining wait is under
\* 0.1 s (an empty history always is); otherwise it sleeps, and a call that
\* slept returns more than 0.
C14_ImmediateExactlyWhen ==
    [][ \A p \in Procs :
          /\ (pc[p] = "prune" /\ pc'[p] = "decide" =>
                request_times' = SelectSeq(request_times,
                                           LAMBDA t : now[p] - t < Window))
          /\ (pc[p] = "decide" /\ pc'[p] /= "decide" /\ Immediate(p) =>
                /\ pc'[p] = "send"
                /\ waited'[p] = 0
                /\ branch'[p] /= "slept"
                /\ request_times' = Append(request_times, now[p]))
          /\ (pc[p] = "decide" /\ pc'[p] /= "decide" /\ ~Immediate(p) =>
                /\ pc'[p] = "sleeping"
                /\ request_times' = request_times)
          /\ (pc[p] = "sleeping" /\ pc'[p] = "send" => waited'[p] > 0) ]_vars

\* C14 witness: a call has been let through at once because the remaining wait
\* was under 0.1 s, on a history that was at both limits.
C14_Witness ==
    \E p \in Procs :
        /\ pc[p] = "send"
        /\ branch[p] = "negligible"
        /\ waited[p] = 0
        /\ Len(request_times) > burst
        /\ Len(request_times) > requests_per_minute
        /\ Last(request_times) = clock

\* C15: with the pruned count at both limits and a remaining wait of at least
\* 0.1 s the call sleeps; when it goes on, waitTime has passed, it appends one
\* timestamp read after the sleep (at least oldest + 60, later than the
\* pre-wait now) and returns waitTime.
C15_SleepThenStamp ==
    [][ \A p \in Procs :
          /\ (pc[p] = "decide" /\ pc'[p] /= "decide" /\ ~Immediate(p) =>
                pc'[p] = "sleeping")
          /\ (pc[p] = "sleeping" /\ pc'[p] /= "sleeping" =>
                LET w == Window - (now[p] - request_times[1])
                IN /\ pc'[p] = "send"
                   /\ Len(request_times) >= burst
                   /\ Len(request_times) >= requests_per_minute
                   /\ w >= MinWait
                   /\ clock - now[p] >= w
                   /\ clock >= request_times[1] + Window
                   /\ clock > now[p]
                   /\ request_times' = Append(request_times, clock)
                   /\ waited'[p] = w) ]_vars

\* C15 witness: a call that slept has gone on; its timestamp is the last of
\* the history and lies a whole window after the oldest.
C15_Witness ==
    \E p \in Procs :
        /\ pc[p] = "send"
        /\ branch[p] = "slept"
        /\ waited[p] >= MinWait
        /\ Len(request_times) >= 2
        /\ Last(request_times) >= request_times[1] + Window

\* C16 (as stated): with burst <= requestsPerMinute no call is let through by
\* the per-minute check.
C16_Original ==
    \A p \in Procs : burst <= requests_per_minute => branch[p] /= "per_minute"

\* C16 (amended): with requestsPerMinute <= burst no call is let through by the
\* per-minute check, and a call is let through by a count check exactly when
\* the pruned count is under burst.
C16_PerMinuteDeadWhenBurstLarger ==
    [][ \A p \in Procs :
          requests_per_minute <= burst /\ pc[p] = "decide" /\ pc'[p] = "send" =>
             /\ branch'[p] \in {"burst", "negligible"}
             /\ (branch'[p] = "burst" <=> Len(request_times) < burst) ]_vars

\* C16 witness: with requestsPerMinute < burst a call has been let through by
\* the burst check at a count that the per-minute limit had already reached.
C16_Witness ==
    \E p \in Procs :
        /\ requests_per_minute < burst
        /\ pc[p] = "send"
        /\ branch[p] = "burst"
        /\ Len(request_times) > requests_per_minute

\* The thread is inside a _make_request call.
InRequest(p) ==
    pc[p] \in {"wait_if_needed", "read_now", "prune", "decide", "sleeping",
               "send", "backoff", "returned"}

\* C17: within one _make_request call every send follows its own completed
\* wait_if_needed and every backoff sleep follows a send: at the send one more
\* wait_if_needed than sends has completed, everywhere else as many, and after
\* a backoff sleep the call goes to wait_if_needed, never straight to a send.
C17_AdmitBeforeEverySend ==
    [][ \A p \in Procs : InRequest(p)' =>
          LET k == ctx'[p]
          IN /\ (pc'[p] = "send" => admits'[k] = Len(hist'[k]) + 1)
             /\ (pc'[p] /= "send" => admits'[k] = Len(hist'[k]))
             /\ (pc'[p] = "backoff" => Len(sleeps'[k]) = Len(hist'[k]))
             /\ (pc'[p] \notin {"backoff", "returned"} =>
                    Len(sleeps'[k]) = Len(hist'[k]))
             /\ (pc[p] = "backoff" => pc'[p] \in {"backoff", "wait_if_needed"})
             /\ (pc[p] = "send" => pc'[p] \in {"send", "backoff", "returned"})
             /\ (pc'[p] = "send" => pc[p] \in {"send", "decide", "sleeping"}) ]_vars

\* C17 witness: the third send of one call is about to be made, after three
\* completed wait_if_needed calls and two backoff sleeps.
C17_Witness ==
    /\ pc[Main] = "send"
    /\ retry_count[Main] = 2
    /\ admits[Status] = 3
    /\ Len(hist[Status]) = 2
    /\ Len(sleeps[Status]) = 2

\* C18: every _make_request call returns; it makes at most maxRetries + 1 sends
\* and at most maxRetries backoff sleeps, the i-th with retry_count i - 1 and
\* base 5 s (to the tick, within 10% of min(60, 5 * 2^(i-1)) s); answered 429
\* every time it returns None after exactly maxRetries + 1 sends.
C18_TerminatesWithinBudget ==
    /\ [](/\ Len(hist[Status]) <= DefaultMaxRetries + 1
          /\ Len(sleeps[Status]) <= DefaultMaxRetries
          /\ \A i \in 1..Len(sleeps[Status]) : sleeps[Status][i] = i - 1
          /\ (/\ pc[Main] = "returned"
              /\ ctx[Main] = Status
              /\ \A i \in 1..Len(hist[Status]) : hist[Status][i] = "s429"
              => /\ Len(hist[Status]) = DefaultMaxRetries + 1
                 /\ ret[Main] = "none"))
    /\ [][ pc[Main] = "send" /\ pc'[Main] = "backoff" =>
             LET i == Len(sleeps'[Status])
                 w == Min(DefaultMaxWait * TicksPerSecond,
                          BackoffBase * TicksPerSecond * Pow2(i - 1))
                 d == wake'[Main] - clock
             IN 100 * d <= 110 * w /\ 100 * (d + 1) > 90 * w ]_vars
    /\ <>(pc[Main] = "done")

\* C18 witness: a call answered 429 every time has returned None after four
\* sends and three backoff sleeps.
C18_Witness ==
    /\ pc[Main] = "returned"
    /\ ctx[Main] = Status
    /\ hist[Status] = <<"s429", "s429", "s429", "s429">>
    /\ sleeps[Status] = <<0, 1, 2>>
    /\ ret[Main] = "none"

\* C19: for every payload of either endpoint, with any subset of the numeric
\* fields missing, the normalizer returns one canonical record in which each
\* missing field is 0.
C19_NormalizerTotal ==
    norm_done =>
        /\ Len(norm_out) = 1
        /\ norm_out[1].ticker = norm_in.ticker
        /\ norm_out[1].date.type = "str"
        /\ norm_out[1].date.day = norm_in.date.day
        /\ norm_out[1].open = Get(norm_in.data, "o", 0)
        /\ norm_out[1].high = Get(norm_in.data, "h", 0)
        /\ norm_out[1].low = Get(norm_in.data, "l", 0)
        /\ norm_out[1].close = Get(norm_in.data, "c", 0)
        /\ norm_out[1].volume = Get(norm_in.data, "v", 0)

\* C20: the limiter's history is always in non-decreasing timestamp order, so
\* its first element is its oldest.
C20_HistorySorted ==
    \A i, j \in 1..Len(request_times) : i <= j => request_times[i] <= request_times[j]

\* C20 witness: the history holds timestamps appended by different threads at
\* different instants, one of them after sleeping while another thread waited.
C20_Witness ==
    /\ Len(request_times) >= 3
    /\ request_times[1] < Last(request_times)
    /\ \E p, q \in Procs :
          /\ p /= q
          /\ pc[p] = "send" /\ branch[p] = "slept"
          /\ pc[q] = "send" /\ branch[q] /= "none"

\* C21: under fair scheduling every wait_if_needed call returns; the lock is
\* held only by a thread inside the call and is free again on every return,
\* a call sleeps at most once (a sleep is entered from the decision and left
\* only by returning), and the value returned is 0 or a wait of 0.1 s to 60 s.
C21_EveryCallReturns ==
    /\ \A p \in Procs : (pc[p] = "wait_if_needed") ~> (pc[p] = "send")
    /\ [](\A p \in Procs : lock = p => Inside(p))
    /\ [][ \A p \in Procs :
             /\ (pc[p] /= "send" /\ pc'[p] = "send" =>
                    /\ lock = p
                    /\ lock' = NoOwner
                    /\ (waited'[p] = 0 \/
                          (MinWait <= waited'[p] /\ waited'[p] <= Window))
                    /\ (waited'[p] > 0 <=> pc[p] = "sleeping"))
             /\ (pc[p] = "sleeping" => pc'[p] \in {"sleeping", "send"})
             /\ (pc[p] /= "sleeping" /\ pc'[p] = "sleeping" => pc[p] = "decide")
             /\ (pc'[p] = "decide" => pc[p] \in {"decide", "prune"}) ]_vars

\* C21 witness: a call that slept has returned its wait and the lock is free,
\* while another thread that called in the meantime is still to get the lock.
C21_Witness ==
    \E p, q \in Procs :
        /\ p /= q
        /\ pc[p] = "send" /\ branch[p] = "slept"
        /\ waited[p] >= MinWait /\ waited[p] <= Window
        /\ lock = NoOwner
        /\ pc[q] = "wait_if_needed"

====
